---------------------------- MODULE Spec2Model ----------------------------
(***************************************************************************)
(* siglent-bin2sr: the conversion driver (main) and the Sigrok zip writer  *)
(* (SrZip / AnalogChannel), modelled as a state machine.                   *)
(*                                                                         *)
(* The sample region of the input (the bytes from offset 0x800 on) is a    *)
(* stream of dataLen bytes; the byte at stream position p is identified by *)
(* p, and the value the driver derives from it for channel n by the record *)
(* [ch |-> n, pos |-> p] (n is the header slot whose scale/offset is used).*)
(* The archive is the sequence of its entries in creation order.           *)
(* Sizes are counted in samples (4 bytes each in the output).              *)
(* What the value of a byte is, is the subject of SpecTransform, where      *)
(* values are exact multiples of 1/ScalerDen.                              *)
(*                                                                         *)
(* The driver is the multi-channel main (unnamed/part_000); convert.go is  *)
(* the earlier single-channel main, with the same sample loop and the same *)
(* FileValueWriter.                                                        *)
(***************************************************************************)
EXTENDS Integers, Sequences, FiniteSets, TLC

\* ------------------------------------------------------------------ bounds
\* SamplesLimit is 0x280000 in the source; the model scales it down so that
\* a rollover happens within the explored runs.
SamplesLimit == 3
\* capacity of the bufio.Writer of the raw output, in samples (4096 bytes in
\* the Go library, i.e. 1024 samples); scaled down likewise.
BufSamples == 2
\* largest decimation factor explored (-1 and 0 are the rejected ones)
MaxDecimate == 3
\* largest start offset explored, in raw samples
MaxStart == 2
\* calls made on the writer used on its own (SpecWriter)
MaxHChannels == 3
MaxHWrites == 4

\* largest pointCount explored: one past the second rollover
MaxPoints == 2 * SamplesLimit + 1
\* longest sample region explored
MaxData == 2 * MaxPoints + 1
\* the driver's channel loop runs chNum = 1..4 (part_000:147)
NumChannels == 4
\* header values explored: slot n has scale s + n and offset o - n for s in
\* 0..MaxScale and o in 0..MaxOffset, in the unit of the header
MaxScale == 0
MaxOffset == 1
\* values are exact multiples of 1/ScalerDen: 10.7 / 256 = ScalerNum/ScalerDen
ScalerNum == 107
ScalerDen == 2560
\* the byte that stands for zero (part_000:212)
ZeroPoint == 128
\* a byte is 0..255 (ReadByte, part_000:198)
MaxByte == 255

VARIABLES
    \* resolved configuration and input
    writeRaw,     \* -raw flag
    decimate,     \* -decimate flag
    startPoint,   \* uint(startOffset * SampleRate / 1000)
    Points,       \* dataSpec.Points
    dataLen,      \* bytes available from offset 0x800 on
    headerOk,     \* the header and the data spec can be read in full
    ioFaults,     \* what may fail in the output sink: "none", "create", "write"
    use_10x,      \* -10x flag
    applyOffset,  \* -offset flag
    hdr,          \* Header: hdr[n] is [scale |-> Scales[n-1].N, offset |-> Offsets[n-1].N]
    \* driver
    pc,           \* position in main
    exitKind,     \* how main left: "none", "rejected", "ok", "return_err", "panic"
    panicMsg,     \* value main panicked with
    chNum,        \* channel loop variable
    i,            \* sample loop variable
    pos,          \* bytes consumed from rbuf
    output,       \* 0: none, -1: the FileValueWriter, n > 0: SrValueWriter of channels[n]
    written,      \* history: values passed to output.Write, in order
    sinkFailed,   \* history: a write of sample bytes to the output sink failed
    \* resources
    inFile,       \* input file handle
    rawFile,      \* FileValueWriter.file
    wbuf,         \* FileValueWriter.w: samples held by the bufio.Writer
    rawOut,       \* samples delivered to the raw output file
    zipOsFile,    \* os.File behind the zip.Writer
    zipFile,      \* zip.Writer of the SrZip
    \* SrZip
    channels,     \* sr.channels
    entries,      \* archive entries in creation order
    created,      \* history: names passed to NewAnalogChannel, in order
    \* the locals of main that make a value out of a byte
    scale,        \* scale of the current channel
    offset,       \* offset of the current channel
    valueScaler,  \* scale * 10.7 / 256, as a multiple of 1/ScalerDen
    vb,           \* v: the byte read last
    v2            \* the value made of it, as a multiple of 1/ScalerDen

config == <<writeRaw, decimate, startPoint, Points, dataLen, headerOk, ioFaults,
            use_10x, applyOffset, hdr>>
xform  == <<scale, offset, valueScaler, vb, v2>>
driver == <<pc, exitKind, panicMsg, chNum, i, pos, output, written, sinkFailed>>
rawW   == <<rawFile, wbuf, rawOut>>
srzip  == <<zipOsFile, zipFile, channels, entries, created>>
vars   == <<config, driver, inFile, rawW, srzip, xform>>

\* outcomes of one zip.Writer.Create call: TRUE = created
CreateOutcomes == IF ioFaults = "create" THEN BOOLEAN ELSE {TRUE}

\* outcomes of one write of sample bytes to the sink: TRUE = written (one
\* failure is explored per run)
WriteOutcomes == IF ioFaults = "write" /\ ~sinkFailed THEN BOOLEAN ELSE {TRUE}

\* ------------------------------------------------------------- zip.Writer
\* zip.Writer.Create: the entry written before is closed, the new one is the
\* only open one.  A failed Create adds no entry.
CloseLast(es) == [k \in 1..Len(es) |-> [es[k] EXCEPT !.closed = TRUE]]

ZipCreate(es, name, ok) ==
    IF ok THEN Append(CloseLast(es), [name |-> name, data |-> <<>>, closed |-> FALSE])
          ELSE CloseLast(es)

\* Write on the io.Writer of entry w: refused once the entry is closed, and
\* nothing is stored when the sink fails
EntryWrite(es, w, v, okW) ==
    IF es[w].closed \/ ~okW THEN es
    ELSE [es EXCEPT ![w].data = Append(@, v)]


\* ---------------------------------------------------------- AnalogChannel
\* a channel's name in the archive and in the metadata
SegName(c) == <<"analog", c.channel, c.part>>

\* update with parts of SamplesLimit + 1 samples
update_OffByOne(c, es, ok) ==
    IF c.samples % (SamplesLimit + 1) = 0
    THEN LET c1 == [c EXCEPT !.part = @ + 1]
             es1 == ZipCreate(es, SegName(c1), ok)
         IN  IF ok
             THEN [c |-> [c1 EXCEPT !.w = Len(es1)], es |-> es1, err |-> <<>>]
             ELSE [c |-> c1, es |-> es1, err |-> <<"can't create part for analog ch", c.name>>]
    ELSE [c |-> c, es |-> es, err |-> <<>>]

\* AnalogChannel.update: handles splitting of channel data into parts.
\* Result: the channel, the archive entries, and the error returned
\* (<<>> is nil).
update(c, es, ok) ==
    IF c.samples % SamplesLimit = 0
    THEN LET c1 == [c EXCEPT !.part = @ + 1]
             es1 == ZipCreate(es, SegName(c1), ok)
         IN  IF ok
             THEN [c |-> [c1 EXCEPT !.w = Len(es1)], es |-> es1, err |-> <<>>]
             ELSE [c |-> c1, es |-> es1, err |-> <<"can't create part for analog ch", c.name>>]
    ELSE [c |-> c, es |-> es, err |-> <<>>]

\* NewAnalogChannel numbering the channels from 0
NewAnalogChannel_ZeroBased(chs, es, name, ok) ==
    LET c == [samples |-> 0, part |-> 0, w |-> 0,
              channel |-> Len(chs), name |-> name]
        r == update(c, es, ok)
    IN  [channels |-> Append(chs, r.c), entries |-> r.es]

\* SrZip.NewAnalogChannel: the new channel gets index len(sr.channels)+1 and
\* is appended; update() opens its first part and its error is dropped.
\* Result: the channels and the entries (the handle is Len of the channels).
NewAnalogChannel(chs, es, name, ok) ==
    LET c == [samples |-> 0, part |-> 0, w |-> 0,
              channel |-> Len(chs) + 1, name |-> name]
        r == update(c, es, ok)
    IN  [channels |-> Append(chs, r.c), entries |-> r.es]

\* AnalogChannel.Write: the result of c.w.Write is dropped; a nil c.w makes
\* the call panic with a nil dereference before anything changes.
ChannelWrite(chs, es, h, v, ok, okW) ==
    IF chs[h].w = 0
    THEN [channels |-> chs, entries |-> es, err |-> <<>>, nilDeref |-> TRUE]
    ELSE LET es1 == EntryWrite(es, chs[h].w, v, okW)
             c1  == [chs[h] EXCEPT !.samples = @ + 1]
             r   == update(c1, es1, ok)
         IN  [channels |-> [chs EXCEPT ![h] = r.c], entries |-> r.es,
              err |-> r.err, nilDeref |-> FALSE]

\* the text of the metadata entry, as its lines after the samplerate line
MetadataLines(chs) ==
    <<<<"total analog", Len(chs)>>>>
      \o [k \in 1..Len(chs) |-> <<"analog", chs[k].channel, chs[k].name>>]

\* SrZip.createFile: create the entry and write its contents
createFile(es, name, contents, ok) ==
    LET es1 == ZipCreate(es, name, ok)
    IN  IF ok THEN [es1 EXCEPT ![Len(es1)].data = contents] ELSE es1

\* SrZip.Close: version, then metadata, then zip.Writer.Close; the first
\* failure returns.  Result: the entries and the state of the zip.Writer.
SrZipClose(chs, es, okV, okM) ==
    LET es1 == createFile(es, <<"version">>, <<"2\n">>, okV)
        es2 == createFile(es1, <<"metadata">>, MetadataLines(chs), okM)
    IN  IF ~okV THEN [entries |-> es1, zipFile |-> "open"]
        ELSE IF ~okM THEN [entries |-> es2, zipFile |-> "open"]
        ELSE [entries |-> CloseLast(es2), zipFile |-> "closed"]

\* -------------------------------------------------------- FileValueWriter
\* FileValueWriter.Write: binary.Write into the bufio.Writer, which passes
\* its contents on to the file only when it has no room for the new value;
\* the error of that write to the file is the error of Write.
FileWrite(buf, out, v, okW) ==
    IF Len(buf) >= BufSamples
    THEN IF okW
         THEN [wbuf |-> <<v>>, rawOut |-> out \o buf, err |-> FALSE]
         ELSE [wbuf |-> buf, rawOut |-> out, err |-> TRUE]
    ELSE [wbuf |-> Append(buf, v), rawOut |-> out, err |-> FALSE]

\* FileValueWriter.Close: closes the file; the bufio.Writer is left as it is
FileClose(buf, out) == [wbuf |-> buf, rawOut |-> out, rawFile |-> "closed"]


\* ------------------------------------------------------------------ driver
InitMain(faults) ==
    /\ writeRaw \in BOOLEAN
    /\ decimate \in -1..MaxDecimate
    /\ startPoint \in 0..MaxStart
    /\ Points \in 0..MaxPoints
    /\ dataLen \in 0..MaxData
    /\ headerOk \in BOOLEAN
    /\ ioFaults = faults
    /\ use_10x = FALSE
    /\ applyOffset = TRUE
    /\ hdr = [n \in 1..NumChannels |-> [scale |-> n, offset |-> 0]]
    /\ pc = "start"
    /\ exitKind = "none"
    /\ panicMsg = <<>>
    /\ chNum = 0
    /\ i = 0
    /\ pos = 0
    /\ output = 0
    /\ written = <<>>
    /\ sinkFailed = FALSE
    /\ inFile = "none"
    /\ rawFile = "none"
    /\ wbuf = <<>>
    /\ rawOut = <<>>
    /\ zipOsFile = "none"
    /\ zipFile = "none"
    /\ channels = <<>>
    /\ entries = <<>>
    /\ created = <<>>
    /\ scale = 0
    /\ offset = 0
    /\ valueScaler = 0
    /\ vb = 0
    /\ v2 = 0

\* a run of the program on an archive sink that does not fail
Init == InitMain("none")

\* a run of the program on an output sink that may fail: either the
\* creation of archive entries or the writes of sample bytes
InitIO == \E f \in {"create", "write"} : InitMain(f)

\* decimateSkip := uint(*decimate) - 1
decimateSkip == decimate - 1

\* main leaves by return or by panic: the deferred calls run next
Leave(kind, msg) ==
    /\ pc' = "exiting"
    /\ exitKind' = kind
    /\ panicMsg' = msg

\* the check of the decimation factor letting 0 through
Main_Flags_ZeroAllowed ==
    /\ pc = "start"
    /\ IF decimate < 0
       THEN /\ pc' = "done"
            /\ exitKind' = "rejected"
       ELSE /\ pc' = "header"
            /\ UNCHANGED exitKind
    /\ UNCHANGED <<config, xform, sinkFailed, panicMsg, chNum, i, pos, output, written, inFile, rawW, srzip>>

\* flag.Parse and the check of the decimation factor
Main_Flags ==
    /\ pc = "start"
    /\ IF decimate < 1
       THEN /\ pc' = "done"
            /\ exitKind' = "rejected"
       ELSE /\ pc' = "header"
            /\ UNCHANGED exitKind
    /\ UNCHANGED <<config, xform, sinkFailed, panicMsg, chNum, i, pos, output, written, inFile, rawW, srzip>>

\* os.Open, defer file.Close, the header, the data spec, the seek to 0x800
Main_ReadHeader ==
    /\ pc = "header"
    /\ inFile' = "open"
    /\ IF headerOk
       THEN /\ pc' = "open_output"
            /\ UNCHANGED <<exitKind, panicMsg>>
       ELSE Leave("return_err", <<>>)
    /\ UNCHANGED <<config, xform, sinkFailed, chNum, i, pos, output, written, rawW, srzip>>

\* the output: NewFileValueWriter, or NewSrZipFile and defer sr.Close
Main_OpenOutput ==
    /\ pc = "open_output"
    /\ IF writeRaw
       THEN /\ rawFile' = "open"
            /\ output' = -1
            /\ UNCHANGED <<zipOsFile, zipFile>>
       ELSE /\ zipOsFile' = "open"
            /\ zipFile' = "open"
            /\ UNCHANGED <<rawFile, output>>
    /\ pc' = "channel"
    /\ chNum' = 1
    /\ UNCHANGED <<config, xform, sinkFailed, exitKind, panicMsg, i, pos, written, inFile, wbuf, rawOut,
                   channels, entries, created>>

\* the head of the channel loop without the Peek for the end of the input
Main_Channel_NoPeek ==
    /\ pc = "channel"
    /\ IF chNum > NumChannels \/ (writeRaw /\ chNum > 1)
       THEN /\ Leave("ok", <<>>)
            /\ UNCHANGED <<i, output, channels, entries, created>>
       ELSE /\ pc' = "discard"
            /\ i' = 0
            /\ UNCHANGED <<exitKind, panicMsg>>
            /\ IF writeRaw
               THEN UNCHANGED <<output, channels, entries, created>>
               ELSE \E ok \in CreateOutcomes :
                      LET r == NewAnalogChannel(channels, entries, <<"Ch", chNum>>, ok)
                      IN  /\ channels' = r.channels
                          /\ entries' = r.entries
                          /\ output' = Len(r.channels)
                          /\ created' = Append(created, <<"Ch", chNum>>)
    /\ UNCHANGED <<config, xform, sinkFailed, chNum, pos, written, inFile, rawW, zipOsFile, zipFile>>

\* the head of the channel loop keeping the writer of the first channel
Main_Channel_StaleOutput ==
    /\ pc = "channel"
    /\ IF chNum > NumChannels \/ pos >= dataLen \/ (writeRaw /\ chNum > 1)
       THEN /\ Leave("ok", <<>>)
            /\ UNCHANGED <<i, output, channels, entries, created>>
       ELSE /\ pc' = "discard"
            /\ i' = 0
            /\ UNCHANGED <<exitKind, panicMsg>>
            /\ IF writeRaw
               THEN UNCHANGED <<output, channels, entries, created>>
               ELSE \E ok \in CreateOutcomes :
                      LET r == NewAnalogChannel(channels, entries, <<"Ch", chNum>>, ok)
                      IN  /\ channels' = r.channels
                          /\ entries' = r.entries
                          /\ output' = 1
                          /\ created' = Append(created, <<"Ch", chNum>>)
    /\ UNCHANGED <<config, xform, sinkFailed, chNum, pos, written, inFile, rawW, zipOsFile, zipFile>>

\* head of the channel loop: the loop condition, the Peek, the raw-mode
\* break, and the opening of the channel's output
Main_Channel ==
    /\ pc = "channel"
    /\ IF chNum > NumChannels \/ pos >= dataLen \/ (writeRaw /\ chNum > 1)
       THEN /\ Leave("ok", <<>>)
            /\ UNCHANGED <<i, output, channels, entries, created>>
       ELSE /\ pc' = "discard"
            /\ i' = 0
            /\ UNCHANGED <<exitKind, panicMsg>>
            /\ IF writeRaw
               THEN UNCHANGED <<output, channels, entries, created>>
               ELSE \E ok \in CreateOutcomes :
                      LET r == NewAnalogChannel(channels, entries, <<"Ch", chNum>>, ok)
                      IN  /\ channels' = r.channels
                          /\ entries' = r.entries
                          /\ output' = Len(r.channels)
                          /\ created' = Append(created, <<"Ch", chNum>>)
    /\ UNCHANGED <<config, xform, sinkFailed, chNum, pos, written, inFile, rawW, zipOsFile, zipFile>>

\* discard points until the starting offset
Main_Discard ==
    /\ pc = "discard"
    /\ IF startPoint > 0
       THEN /\ i' = startPoint
            /\ IF pos + startPoint > dataLen
               THEN /\ pos' = dataLen
                    /\ Leave("return_err", <<>>)
               ELSE /\ pos' = pos + startPoint
                    /\ pc' = "sample"
                    /\ UNCHANGED <<exitKind, panicMsg>>
       ELSE /\ pc' = "sample"
            /\ UNCHANGED <<i, pos, exitKind, panicMsg>>
    /\ UNCHANGED <<config, xform, sinkFailed, chNum, output, written, inFile, rawW, srzip>>

\* output.Write(float32(v2)) on the current output, and the panic on its error
OutputWrite(v, inext, pnext) ==
    IF writeRaw
    THEN \E okW \in (IF Len(wbuf) >= BufSamples THEN WriteOutcomes ELSE {TRUE}) :
           LET r == FileWrite(wbuf, rawOut, v, okW)
           IN  /\ wbuf' = r.wbuf
               /\ rawOut' = r.rawOut
               /\ pos' = pnext
               /\ written' = Append(written, v)
               /\ sinkFailed' = (sinkFailed \/ r.err)
               /\ UNCHANGED <<rawFile, channels, entries>>
               /\ IF r.err
                  THEN /\ i' = inext
                       /\ Leave("panic", <<"write error">>)
                  ELSE /\ i' = inext + 1
                       /\ UNCHANGED <<pc, exitKind, panicMsg>>
    ELSE \E ok \in CreateOutcomes, okW \in WriteOutcomes :
           LET r == ChannelWrite(channels, entries, output, v, ok, okW)
           IN  /\ channels' = r.channels
               /\ entries' = r.entries
               /\ pos' = pnext
               /\ written' = Append(written, v)
               /\ sinkFailed' = (sinkFailed \/ (~r.nilDeref /\ ~okW))
               /\ UNCHANGED rawW
               /\ IF r.nilDeref
                  THEN /\ i' = inext
                       /\ Leave("panic", <<"nil pointer dereference">>)
                  ELSE IF r.err # <<>>
                  THEN /\ i' = inext
                       /\ Leave("panic", r.err)
                  ELSE /\ i' = inext + 1
                       /\ UNCHANGED <<pc, exitKind, panicMsg>>

\* one iteration of the sample loop, or its end
Main_Sample ==
    /\ pc = "sample"
    /\ IF i >= Points
       THEN /\ pc' = "close_output"
            /\ UNCHANGED <<exitKind, panicMsg, i, pos, written, sinkFailed, rawW,
                           channels, entries>>
       ELSE IF pos >= dataLen
       THEN /\ Leave("panic", <<"EOF">>)
            /\ UNCHANGED <<i, pos, written, sinkFailed, rawW, channels, entries>>
       ELSE IF decimateSkip > 0 /\ i + decimateSkip < Points
       THEN IF pos + 1 + decimateSkip > dataLen
            THEN /\ i' = i + decimateSkip
                 /\ pos' = dataLen
                 /\ Leave("panic", <<"EOF">>)
                 /\ UNCHANGED <<written, sinkFailed, rawW, channels, entries>>
            ELSE OutputWrite([ch |-> chNum, pos |-> pos],
                             i + decimateSkip, pos + 1 + decimateSkip)
       ELSE OutputWrite([ch |-> chNum, pos |-> pos], i, pos + 1)
    /\ UNCHANGED <<config, xform, chNum, output, inFile, zipOsFile, zipFile, created>>

\* output.Close() with an SrValueWriter.Close that closes the SrZip
Main_CloseOutput_Finalize ==
    /\ pc = "close_output"
    /\ IF writeRaw
       THEN LET r == FileClose(wbuf, rawOut)
            IN  /\ wbuf' = r.wbuf
                /\ rawOut' = r.rawOut
                /\ rawFile' = r.rawFile
                /\ UNCHANGED <<entries, zipFile>>
       ELSE LET r == SrZipClose(channels, entries, TRUE, TRUE)
            IN  /\ entries' = r.entries
                /\ zipFile' = r.zipFile
                /\ UNCHANGED rawW
    /\ chNum' = chNum + 1
    /\ pc' = "channel"
    /\ UNCHANGED <<config, xform, sinkFailed, exitKind, panicMsg, i, pos, output, written, inFile,
                   zipOsFile, channels, created>>

\* output.Close() at the end of a channel, and chNum++
Main_CloseOutput ==
    /\ pc = "close_output"
    /\ IF writeRaw
       THEN LET r == FileClose(wbuf, rawOut)
            IN  /\ wbuf' = r.wbuf
                /\ rawOut' = r.rawOut
                /\ rawFile' = r.rawFile
       ELSE UNCHANGED rawW
    /\ chNum' = chNum + 1
    /\ pc' = "channel"
    /\ UNCHANGED <<config, xform, sinkFailed, exitKind, panicMsg, i, pos, output, written, inFile, srzip>>

\* the deferred calls, last first: sr.Close() when the archive was created,
\* then file.Close()
Main_Deferred ==
    /\ pc = "exiting"
    /\ IF zipFile # "none"
       THEN \E okV \in CreateOutcomes, okM \in CreateOutcomes :
              LET r == SrZipClose(channels, entries, okV, okM)
              IN  /\ entries' = r.entries
                  /\ zipFile' = r.zipFile
       ELSE UNCHANGED <<entries, zipFile>>
    /\ inFile' = "closed"
    /\ pc' = "done"
    /\ UNCHANGED <<config, xform, sinkFailed, exitKind, panicMsg, chNum, i, pos, output, written, rawW,
                   zipOsFile, channels, created>>

Next ==
    \/ Main_Flags
    \/ Main_ReadHeader
    \/ Main_OpenOutput
    \/ Main_Channel
    \/ Main_Discard
    \/ Main_Sample
    \/ Main_CloseOutput
    \/ Main_Deferred

Spec == Init /\ [][Next]_vars

SpecIO == InitIO /\ [][Next]_vars

\* ---------------------------------------------------------- writer harness
\* The writer used on its own: any sequence of NewAnalogChannel and Write
\* calls on any of the handles, then Close.
InitWriter ==
    /\ writeRaw = FALSE
    /\ decimate = 1
    /\ startPoint = 0
    /\ Points = 0
    /\ dataLen = 0
    /\ headerOk = TRUE
    /\ ioFaults = "none"
    /\ use_10x = FALSE
    /\ applyOffset = TRUE
    /\ hdr = [n \in 1..NumChannels |-> [scale |-> n, offset |-> 0]]
    /\ pc = "writer"
    /\ exitKind = "none"
    /\ panicMsg = <<>>
    /\ chNum = 0
    /\ i = 0
    /\ pos = 0
    /\ output = 0
    /\ written = <<>>
    /\ sinkFailed = FALSE
    /\ inFile = "none"
    /\ rawFile = "none"
    /\ wbuf = <<>>
    /\ rawOut = <<>>
    /\ zipOsFile = "open"
    /\ zipFile = "open"
    /\ channels = <<>>
    /\ entries = <<>>
    /\ created = <<>>
    /\ scale = 0
    /\ offset = 0
    /\ valueScaler = 0
    /\ vb = 0
    /\ v2 = 0

W_NewAnalogChannel ==
    /\ pc = "writer"
    /\ zipFile = "open"
    /\ Len(channels) < MaxHChannels
    /\ \E nm \in 1..2, ok \in CreateOutcomes :
         LET r == NewAnalogChannel(channels, entries, <<"Ch", nm>>, ok)
         IN  /\ channels' = r.channels
             /\ entries' = r.entries
             /\ created' = Append(created, <<"Ch", nm>>)
    /\ UNCHANGED <<config, xform, sinkFailed, driver, inFile, rawW, zipOsFile, zipFile>>

W_Write ==
    /\ pc = "writer"
    /\ zipFile = "open"
    /\ Len(written) < MaxHWrites
    /\ \E h \in 1..Len(channels), ok \in CreateOutcomes, okW \in WriteOutcomes :
         LET v == [ch |-> h, pos |-> Len(written)]
             r == ChannelWrite(channels, entries, h, v, ok, okW)
         IN  /\ channels' = r.channels
             /\ entries' = r.entries
             /\ written' = Append(written, v)
             /\ sinkFailed' = (sinkFailed \/ ~okW)
    /\ UNCHANGED <<config, xform, pc, exitKind, panicMsg, chNum, i, pos, output,
                   inFile, rawW, zipOsFile, zipFile, created>>

W_Close ==
    /\ pc = "writer"
    /\ zipFile = "open"
    /\ \E okV \in CreateOutcomes, okM \in CreateOutcomes :
         LET r == SrZipClose(channels, entries, okV, okM)
         IN  /\ entries' = r.entries
             /\ zipFile' = r.zipFile
    /\ UNCHANGED <<config, xform, sinkFailed, driver, inFile, rawW, zipOsFile, channels, created>>

NextWriter ==
    \/ W_NewAnalogChannel
    \/ W_Write
    \/ W_Close

SpecWriter == InitWriter /\ [][NextWriter]_vars

\* ------------------------------------------------------- sample transform
\* The path from a byte to a value in main: the channel loop resolves scale
\* and offset of the channel, the sample loop turns each byte into a value.
Headers ==
    {[n \in 1..NumChannels |-> [scale |-> s + n, offset |-> o - n]] :
       s \in 0..MaxScale, o \in 0..MaxOffset}

\* the channel's scale and offset with the probe multiplier on the scale only
ChannelSpec_ScaleOnly(h, n, x10, applyOff) ==
    LET s1 == IF x10 THEN h[n].scale * 10 ELSE h[n].scale
        o1 == h[n].offset
    IN  [scale |-> s1, offset |-> IF applyOff THEN o1 ELSE 0]

\* scale and offset of channel n: the header's, times 10 with -10x, the
\* offset 0 with -offset=false
ChannelSpec(h, n, x10, applyOff) ==
    LET s1 == IF x10 THEN h[n].scale * 10 ELSE h[n].scale
        o1 == IF x10 THEN h[n].offset * 10 ELSE h[n].offset
    IN  [scale |-> s1, offset |-> IF applyOff THEN o1 ELSE 0]

\* valueScaler := scale * 10.7 / 256
ValueScaler(s) == s * ScalerNum

\* v2 := float64(int(v)-128) * valueScaler; v2 -= offset
Value(byte, vs, off) == (byte - ZeroPoint) * vs - off * ScalerDen

InitTransform ==
    /\ writeRaw = FALSE
    /\ decimate = 1
    /\ startPoint = 0
    /\ Points = 0
    /\ dataLen = 0
    /\ headerOk = TRUE
    /\ ioFaults = "none"
    /\ use_10x \in BOOLEAN
    /\ applyOffset \in BOOLEAN
    /\ hdr \in Headers
    /\ pc = "t_channel"
    /\ exitKind = "none"
    /\ panicMsg = <<>>
    /\ chNum = 1
    /\ i = 0
    /\ pos = 0
    /\ output = 0
    /\ written = <<>>
    /\ sinkFailed = FALSE
    /\ inFile = "open"
    /\ rawFile = "none"
    /\ wbuf = <<>>
    /\ rawOut = <<>>
    /\ zipOsFile = "none"
    /\ zipFile = "none"
    /\ channels = <<>>
    /\ entries = <<>>
    /\ created = <<>>
    /\ scale = 0
    /\ offset = 0
    /\ valueScaler = 0
    /\ vb = 0
    /\ v2 = 0

\* the channel loop up to the sample loop: scale, offset, valueScaler
T_Channel ==
    /\ pc = "t_channel"
    /\ chNum <= NumChannels
    /\ LET cs == ChannelSpec(hdr, chNum, use_10x, applyOffset)
       IN  /\ scale' = cs.scale
           /\ offset' = cs.offset
           /\ valueScaler' = ValueScaler(cs.scale)
    /\ pc' = "t_sample"
    /\ UNCHANGED <<config, sinkFailed, exitKind, panicMsg, chNum, i, pos, output, written,
                   inFile, rawW, srzip, vb, v2>>

\* one iteration of the sample loop: a byte is read and its value written
T_Sample ==
    /\ pc \in {"t_sample", "t_written"}
    /\ \E byte \in 0..MaxByte :
         /\ vb' = byte
         /\ v2' = Value(byte, valueScaler, offset)
    /\ pc' = "t_written"
    /\ UNCHANGED <<config, sinkFailed, exitKind, panicMsg, chNum, i, pos, output, written,
                   inFile, rawW, srzip, scale, offset, valueScaler>>

\* the end of the sample loop: chNum++
T_EndChannel ==
    /\ pc \in {"t_sample", "t_written"}
    /\ chNum' = chNum + 1
    /\ pc' = "t_channel"
    /\ UNCHANGED <<config, sinkFailed, exitKind, panicMsg, i, pos, output, written,
                   inFile, rawW, srzip, xform>>

NextTransform ==
    \/ T_Channel
    \/ T_Sample
    \/ T_EndChannel

SpecTransform == InitTransform /\ [][NextTransform]_vars

\* ------------------------------------------------------------ properties
\* the archive entries that are parts of channel k, as indices of entries
SegsOf(k) ==
    {x \in 1..Len(entries) : entries[x].name[1] = "analog" /\ entries[x].name[2] = k}

\* the archive entries with a text name ("version", "metadata")
Named(nm) == {x \in 1..Len(entries) : entries[x].name[1] = nm}

\* the samples stored in the archive, entry after entry
RECURSIVE Stored(_)
Stored(n) ==
    IF n = 0 THEN <<>>
    ELSE IF entries[n].name[1] = "analog" THEN Stored(n - 1) \o entries[n].data
    ELSE Stored(n - 1)

\* the values written for channel n of the input, in order
WrittenFor(n) == SelectSeq(written, LAMBDA v : v.ch = n)

Ceil(a, b) == (a + b - 1) \div b

\* C1: a channel that was written exactly SamplesLimit samples has exactly
\* one segment in the archive, and one that was written SamplesLimit+1
\* samples has exactly two, the second holding exactly 1 sample.
C1_Rollover ==
    \A k \in 1..Len(channels) :
      /\ channels[k].samples = SamplesLimit => Cardinality(SegsOf(k)) = 1
      /\ channels[k].samples = SamplesLimit + 1 =>
           /\ Cardinality(SegsOf(k)) = 2
           /\ \E x \in SegsOf(k) : entries[x].name[3] = 2 /\ Len(entries[x].data) = 1

\* C2: with no start offset, once the pass of a channel is over the number
\* of samples written for it is ceil(Points / decimate).
C2_DecimationCount ==
    (pc = "close_output" /\ startPoint = 0)
      => Len(WrittenFor(chNum)) = Ceil(Points, decimate)

\* C3: in a run that created the container, version and metadata are each
\* written exactly once, at the end of the run (never while the run can still
\* write or create a channel), and once they are written no sample is
\* written and no channel is created.
Finalized == Named("version") # {} \/ Named("metadata") # {} \/ zipFile = "closed"

C3_State ==
    /\ Cardinality(Named("version")) <= 1
    /\ Cardinality(Named("metadata")) <= 1
    /\ Finalized => pc = "done"
    /\ (pc = "done" /\ zipFile # "none") =>
         /\ Cardinality(Named("version")) = 1
         /\ Cardinality(Named("metadata")) = 1
         /\ zipFile = "closed"
         /\ Named("version") = {Len(entries) - 1}
         /\ Named("metadata") = {Len(entries)}

C3_Step ==
    Finalized => /\ written' = written
                 /\ channels' = channels
                 /\ created' = created
                 /\ entries' = entries

C3_FinalizeProtocol == []C3_State /\ [][C3_Step]_vars

C3_Witness ==
    /\ pc = "done"
    /\ zipFile = "closed"
    /\ Len(channels) >= 2
    /\ Len(written) >= 3
    /\ Cardinality(Named("version")) = 1

\* C4: a run that stops because the sample data ends inside a channel's pass
\* leaves the archive without version and metadata entries and not closed.
C4_TruncatedNotFinalized ==
    (pc = "done" /\ zipFile # "none" /\ exitKind \in {"panic", "return_err"})
      => /\ Named("version") = {}
         /\ Named("metadata") = {}
         /\ zipFile # "closed"

\* C5: when the creation of a part of a channel failed (the channel counts
\* more parts than the archive holds for it), main is leaving by a panic
\* whose value names the channel.
C5_CreateFailureSurfaces ==
    \A k \in 1..Len(channels) :
      channels[k].part > Cardinality(SegsOf(k))
        => /\ pc \in {"exiting", "done"}
           /\ exitKind = "panic"
           /\ panicMsg = <<"can't create part for analog ch", channels[k].name>>

\* C6: when the run has ended, no output resource that was opened is still
\* open: the raw file, the zip writer, the file behind the zip writer.
C6_Released ==
    pc = "done" => /\ rawFile # "open"
                   /\ zipFile # "open"
                   /\ zipOsFile # "open"

\* C7: at the end of a successful run every value passed to Write is in the
\* output: in the raw file, or in the entries of the closed archive.
C7_Flushed ==
    (pc = "done" /\ exitKind = "ok")
      => IF writeRaw THEN rawOut = written
         ELSE zipFile = "closed" /\ Stored(Len(entries)) = written

\* C8: after Close, the archive has one metadata entry; it gives the number
\* of channels created as 'total analog' and then one line analogN=<name>
\* per channel created, in creation order, N being 1 for the first.
C8_Metadata ==
    zipFile = "closed" =>
      /\ Cardinality(Named("metadata")) = 1
      /\ \A x \in Named("metadata") :
           /\ Len(entries[x].data) = Len(created) + 1
           /\ entries[x].data[1] = <<"total analog", Len(created)>>
           /\ \A k \in 1..Len(created) :
                entries[x].data[k + 1] = <<"analog", k, created[k]>>

C8_Witness ==
    /\ zipFile = "closed"
    /\ Len(created) = 2
    /\ created[1] # created[2]
    /\ \E a, b \in 1..Len(written) : a < b /\ written[a].ch = 2 /\ written[b].ch = 1

\* C9: in raw mode nothing beyond the bytes of channel 1 is consumed from
\* the input stream, and every value written comes from a byte of channel 1.
C9_RawOnlyChannel1 ==
    (writeRaw /\ Points > 0 /\ dataLen >= 2 * Points)
      => /\ pos <= Points
         /\ \A k \in 1..Len(written) : written[k].ch = 1 /\ written[k].pos < Points

\* C10: in container mode with no start offset, a sample region of exactly
\* n*Points bytes (Points > 0, n in 0..4) makes the run end normally with
\* channels 1..n created in order, channel k named after and scaled by
\* header slot k and fed from the k-th block of Points bytes; a longer region
\* still gives 4 channels and leaves the rest unread.
ChannelsDone(n) ==
    /\ exitKind = "ok"
    /\ Len(channels) = n
    /\ pos = n * Points
    /\ \A k \in 1..n :
         /\ channels[k].channel = k
         /\ channels[k].name = <<"Ch", k>>
         /\ \A x \in SegsOf(k) : \A j \in 1..Len(entries[x].data) :
              /\ entries[x].data[j].ch = k
              /\ entries[x].data[j].pos \in ((k - 1) * Points)..(k * Points - 1)
    /\ \A j \in 1..Len(written) : written[j].ch \in 1..n

HdrScale(n) == hdr[n].scale * (IF use_10x THEN 10 ELSE 1)
HdrOffset(n) == IF applyOffset THEN hdr[n].offset * (IF use_10x THEN 10 ELSE 1) ELSE 0

C11_Transform ==
    pc = "t_written" =>
      /\ v2 = (vb - 128) * HdrScale(chNum) * 107 - HdrOffset(chNum) * 2560
      /\ vb = 128 => v2 = - HdrOffset(chNum) * 2560

C11_Witness ==
    /\ pc = "t_written"
    /\ chNum = 3
    /\ use_10x
    /\ applyOffset
    /\ hdr[3].offset # 0
    /\ vb = 255

C13_InvalidConfig ==
    decimate < 1 =>
      /\ pc \in {"start", "done"}
      /\ pc = "done" => exitKind = "rejected"
      /\ inFile = "none"
      /\ rawFile = "none"
      /\ zipOsFile = "none"
      /\ zipFile = "none"
      /\ pos = 0
      /\ written = <<>>
      /\ rawOut = <<>>
      /\ wbuf = <<>>
      /\ entries = <<>>
      /\ channels = <<>>

C13_Witness ==
    /\ decimate = 0
    /\ pc = "done"
    /\ exitKind = "rejected"
    /\ dataLen > 0
    /\ Points > 0
    /\ headerOk

\* C14: with no start offset, once the pass of a channel is over the
\* samples written for it are those of the raw positions 0, d, 2d, ... below
\* Points of the channel, in order (every position for d = 1).
C14_DecimatorSelection ==
    (pc = "close_output" /\ startPoint = 0) =>
      WrittenFor(chNum) =
        [j \in 1..Ceil(Points, decimate) |->
           [ch |-> chNum, pos |-> (chNum - 1) * Points + (j - 1) * decimate]]

\* C15: once a write of a sample's bytes to the output sink has failed, main
\* is leaving by a panic: no later sample is written.
C15_SinkWriteFatal ==
    sinkFailed => /\ pc \in {"exiting", "done"}
                  /\ exitKind = "panic"

\* C16: whatever the decimation factor and the start offset, the pass of
\* channel n leaves the input stream at the end of the n-th block of Points
\* bytes, and the next pass starts there.
C16_StreamAlignment ==
    /\ pc = "close_output" => pos = chNum * Points
    /\ pc = "discard" => pos = (chNum - 1) * Points /\ i = 0

\* C17: in container mode every sample is written to the entry created
\* last in the archive, which is open, and is stored there.
C17_Step ==
    (~writeRaw /\ written' # written) =>
       /\ output = Len(channels)
       /\ channels[output].w = Len(entries)
       /\ ~entries[Len(entries)].closed
       /\ entries'[Len(entries)].data =
            Append(entries[Len(entries)].data, written'[Len(written')])

C17_SingleActiveSegment == [][C17_Step]_vars

C17_Witness ==
    /\ ~writeRaw
    /\ pc = "sample"
    /\ Len(channels) = 2
    /\ channels[2].part = 2
    /\ Len(entries) = 5
    /\ Len(entries[5].data) = 1

=============================================================================
